---- MODULE Spec2Model ----
(***************************************************************************)
(* Model of assignment2.py, a command-line memory usage reporter.          *)
(*                                                                         *)
(* Text is modelled as a sequence of one-character strings, so that the    *)
(* width and the columns of every printed line are what the f-strings of   *)
(* the program produce.  A Python float that is the quotient of two        *)
(* integers is modelled as the exact fraction [num, den]; round() and the  *)
(* ".0f"/".2f" conversions are round-half-to-even on that fraction.        *)
(* An optional value (Python None) is the empty sequence, a present value  *)
(* x is <<x>>.                                                             *)
(***************************************************************************)
EXTENDS Integers, Sequences, FiniteSets, TLC

VARIABLES
    args,        \* parsed command line: [program, length, human_readable]
    meminfo,     \* lines of /proc/meminfo
    pc,          \* position of __main__
    total_mem,   \* result of get_sys_mem(): None or <<kB>>
    pids,        \* result of pids_of_prog()
    idx,         \* position of the `for pid in pids` loop (1-based)
    rss_totals,  \* list of per-process resident sizes
    total_str,   \* the loop variable total_str, reused by the aggregate line
    out,         \* lines printed on standard output, in order
    exit_code,   \* process exit status: None while running, else <<code>>
    exc,         \* name of the uncaught exception, "" when there is none
    g_args,      \* percent_to_graph call: arguments
    g_ret,       \* percent_to_graph call: None or <<returned string>>
    g_prev,      \* percent_to_graph call: the previous completed call
    h_arg,       \* bytes_to_human_r call: argument (limbs of a non-negative integer)
    h_ret        \* bytes_to_human_r call: None or <<returned value>>

mainVars == <<args, meminfo, pc, total_mem, pids, idx, rss_totals, total_str,
              out, exit_code, exc>>
graphVars == <<g_args, g_ret, g_prev>>
humanVars == <<h_arg, h_ret>>
vars == <<args, meminfo, pc, total_mem, pids, idx, rss_totals, total_str,
          out, exit_code, exc, g_args, g_ret, g_prev, h_arg, h_ret>>

(***************************************************************************)
(* Bounds of the model.                                                    *)
(***************************************************************************)
MaxPids == 2        \* most identifiers the resolver returns
MaxMappings == 2    \* most memory mappings in one smaps file
MaxLimbs == 6       \* most base-1024 digits of a bytes_to_human_r argument
MaxDen == 4         \* largest denominator of a percent_to_graph argument
MaxLength == 5      \* largest length of a percent_to_graph call

(***************************************************************************)
(* Python values and text.                                                 *)
(***************************************************************************)
None == <<>>
Some(x) == <<x>>
IsNone(x) == x = <<>>
Val(x) == x[1]

Digits == <<"0", "1", "2", "3", "4", "5", "6", "7", "8", "9">>

\* '#' * n : the empty string when n <= 0
Repeat(c, n) == IF n <= 0 THEN <<>> ELSE [i \in 1..n |-> c]

\* f"{s:<w}" : left-justify in a field of at least w characters
LJust(s, w) == s \o Repeat(" ", w - Len(s))

RECURSIVE NatToStr(_)
NatToStr(n) == IF n < 10 THEN <<Digits[n + 1]>>
               ELSE NatToStr(n \div 10) \o <<Digits[(n % 10) + 1]>>

\* f"{n}" for an int n
IntToStr(n) == IF n < 0 THEN <<"-">> \o NatToStr(-n) ELSE NatToStr(n)

RECURSIVE SumSeq(_)
SumSeq(s) == IF s = <<>> THEN 0 ELSE Head(s) + SumSeq(Tail(s))

RECURSIVE Pow(_, _)
Pow(b, e) == IF e = 0 THEN 1 ELSE b * Pow(b, e - 1)

\* num/den (den > 0) rounded to the nearest integer, ties to the even one
RoundHalfEven(num, den) ==
    LET q == num \div den
        r == num % den
    IN  IF 2 * r < den THEN q
        ELSE IF 2 * r > den THEN q + 1
        ELSE IF q % 2 = 0 THEN q ELSE q + 1

\* f"{x:.{places}f}" for the fraction x = num/den
FormatFixed(num, den, places) ==
    LET scale == Pow(10, places)
        mag == IF num < 0 THEN -num ELSE num
        h == RoundHalfEven(mag * scale, den)
        frac == NatToStr(h % scale)
        body == NatToStr(h \div scale) \o
                (IF places = 0 THEN <<>>
                 ELSE <<".">> \o Repeat("0", places - Len(frac)) \o frac)
    IN  IF num < 0 THEN <<"-">> \o body ELSE body

(***************************************************************************)
(* The functions of the program.                                           *)
(***************************************************************************)

\* percent_to_graph, with the blank run not shortened by the fill run
percent_to_graph_blanks(percent, length) ==
    LET num_hashes == RoundHalfEven(percent.num * length, percent.den)
    IN  Repeat("#", num_hashes) \o Repeat(" ", length)

\* def percent_to_graph(percent, length): percent is the fraction num/den
percent_to_graph(percent, length) ==
    LET num_hashes == RoundHalfEven(percent.num * length, percent.den)
    IN  Repeat("#", num_hashes) \o Repeat(" ", length - num_hashes)

\* `for line in meminfo: if line.startswith(label): return int(line.split()[1])`
\* falling off the end of the loop yields None
RECURSIVE ScanField(_, _)
ScanField(lines, label) ==
    IF lines = <<>> THEN None
    ELSE IF Head(lines).label = label THEN Some(Head(lines).value)
    ELSE ScanField(Tail(lines), label)

\* def get_sys_mem(): the function has no return after the loop
get_sys_mem(info) == ScanField(info, "MemTotal:")

\* def get_avail_mem(): returns -1 after the loop
get_avail_mem(info) ==
    LET found == ScanField(info, "MemAvailable:")
    IN  IF IsNone(found) THEN -1 ELSE Val(found)

IsSpace(c) == c \in {" ", "\n", "\t"}

\* str.strip()
RECURSIVE LStrip(_)
LStrip(s) == IF s # <<>> /\ IsSpace(Head(s)) THEN LStrip(Tail(s)) ELSE s
RECURSIVE RStrip(_)
RStrip(s) == IF s # <<>> /\ IsSpace(s[Len(s)])
             THEN RStrip(SubSeq(s, 1, Len(s) - 1)) ELSE s
Strip(s) == RStrip(LStrip(s))

\* str.split(): the maximal runs of non-blank characters, in order
RECURSIVE SplitFrom(_, _, _)
SplitFrom(s, cur, acc) ==
    IF s = <<>> THEN (IF cur = <<>> THEN acc ELSE Append(acc, cur))
    ELSE IF IsSpace(Head(s))
         THEN SplitFrom(Tail(s), <<>>, IF cur = <<>> THEN acc ELSE Append(acc, cur))
         ELSE SplitFrom(Tail(s), Append(cur, Head(s)), acc)
Split(s) == SplitFrom(s, <<>>, <<>>)

\* def pids_of_prog(app_name): stdout is what `pidof app_name` printed
pids_of_prog(stdout) ==
    LET stripped == Strip(stdout)
    IN  IF stripped # <<>> THEN Split(stripped) ELSE <<>>

\* def rss_mem_of_pid(proc_id): the body of the `with`, on an opened smaps
RECURSIVE rss_mem_of_pid(_)
rss_mem_of_pid(smaps) ==
    IF smaps = <<>> THEN 0
    ELSE (IF Head(smaps).label = "Rss:" THEN Head(smaps).value ELSE 0)
         + rss_mem_of_pid(Tail(smaps))

suffixes == << <<"K", "i", "B">>, <<"M", "i", "B">>, <<"G", "i", "B">>,
              <<"T", "i", "B">>, <<"P", "i", "B">> >>

(***************************************************************************)
(* bytes_to_human_r works on magnitudes of 2^50 kibibytes and more, so its *)
(* argument is a big integer [neg, limbs]: limbs[i] is the digit of        *)
(* 1024^(i-1) of the magnitude, without leading zero limbs, and neg the    *)
(* sign.  The running value `result` is limbs / 1024^shift with that sign; *)
(* dividing by 1024.0 raises shift by one.                                 *)
(***************************************************************************)
RECURSIVE ToLimbs(_)
ToLimbs(n) == IF n = 0 THEN <<>>
              ELSE <<n % 1024>> \o ToLimbs(n \div 1024)

ToBig(n) == [neg |-> n < 0, limbs |-> ToLimbs(IF n < 0 THEN 0 - n ELSE n)]

RECURSIVE LimbsValue(_)
LimbsValue(limbs) == IF limbs = <<>> THEN 0
                     ELSE Head(limbs) + 1024 * LimbsValue(Tail(limbs))

\* result >= 1024
AtLeast1024(result) ==
    /\ ~result.neg
    /\ \E i \in (result.shift + 2)..Len(result.limbs) : result.limbs[i] # 0

\* the loop condition with > in place of >=
LoopCond_gt(result, suf_count) ==
    /\ ~result.neg
    /\ \/ \E i \in (result.shift + 3)..Len(result.limbs) : result.limbs[i] # 0
       \/ /\ Len(result.limbs) >= result.shift + 2
          /\ result.limbs[result.shift + 2] > 1
       \/ /\ Len(result.limbs) >= result.shift + 2
          /\ result.limbs[result.shift + 2] = 1
          /\ \E i \in 1..(result.shift + 1) : result.limbs[i] # 0
    /\ suf_count < Len(suffixes) - 1

\* while result >= 1024 and suf_count < len(suffixes) - 1
LoopCond(result, suf_count) ==
    AtLeast1024(result) /\ suf_count < Len(suffixes) - 1

RECURSIVE HumanLoop(_, _)
HumanLoop(result, suf_count) ==
    IF LoopCond(result, suf_count)
    THEN HumanLoop([result EXCEPT !.shift = @ + 1], suf_count + 1)
    ELSE [result |-> result, suf_count |-> suf_count]

\* def bytes_to_human_r(kibibytes): the value and the suffix that the
\* returned f-string is made of
bytes_to_human_r(kibibytes) ==
    LET r == HumanLoop([neg |-> kibibytes.neg, limbs |-> kibibytes.limbs,
                        shift |-> 0], 0)
    IN  [result |-> r.result, suf_count |-> r.suf_count,
         suffix |-> suffixes[r.suf_count + 1]]

\* f"{result:.{decimal_places}f} {suffixes[suf_count]}", decimal_places = 2
HumanStr(h) ==
    FormatFixed((IF h.result.neg THEN 0 - 1 ELSE 1) * LimbsValue(h.result.limbs),
                Pow(1024, h.result.shift), 2)
        \o <<" ">> \o h.suffix

\* bytes_to_human_r(n) if args.human_readable else f"{n}"
AmountStr(n, human_readable) ==
    IF human_readable THEN HumanStr(bytes_to_human_r(ToBig(n)))
    ELSE IntToStr(n)

(***************************************************************************)
(* The environment: command lines, /proc/meminfo, pidof, /proc/<pid>/smaps *)
(***************************************************************************)
Lengths == {0, 4, 20}

\* "" stands for a missing program argument and for an empty one alike:
\* `not args.program` is true of both
Programs == {<<>>, <<"s", "h">>, <<"s", "y", "s", "t", "e", "m", "d", "-", "j", "o", "u", "r", "n", "a", "l", "d">>}

ArgSets == [program : Programs, length : Lengths, human_readable : BOOLEAN]

\* <<MemTotal, MemAvailable>> in kB; the kernel reports MemTotal > 0 and
\* MemAvailable <= MemTotal
MemPairs == {<<8, 2>>, <<8, 5>>, <<8, 7>>, <<8, 8>>, <<16000000, 4000000>>}

MemLabels == {"MemTotal:", "MemFree:", "MemAvailable:"}

KeepLabels(lines, keep) == SelectSeq(lines, LAMBDA l : l.label \in keep)

\* a meminfo file holds any subset of the three records, in the kernel's order
MeminfoFiles ==
    { KeepLabels(<< [label |-> "MemTotal:", value |-> p[1]],
                    [label |-> "MemFree:", value |-> p[2] \div 2],
                    [label |-> "MemAvailable:", value |-> p[2]] >>, keep) :
        p \in MemPairs, keep \in SUBSET MemLabels }

PidPool == {<<"7">>, <<"4", "2">>, <<"1", "0", "0", "1">>}

SeqsUpTo(S, n) == UNION { [1..k -> S] : k \in 0..n }

IsInjective(f) == \A i, j \in DOMAIN f : f[i] = f[j] => i = j

\* the identifiers pidof reports: distinct, in any order
PidLists == { ps \in SeqsUpTo(PidPool, MaxPids) : IsInjective(ps) }

RECURSIVE JoinSpace(_)
JoinSpace(ps) == IF ps = <<>> THEN <<>>
                 ELSE IF Len(ps) = 1 THEN ps[1]
                 ELSE ps[1] \o <<" ">> \o JoinSpace(Tail(ps))

\* what pidof prints for the identifiers ps: nothing or an empty line when
\* there are none, else the identifiers on one line
PidofOutputs(ps) == IF ps = <<>> THEN {<<>>, <<"\n">>}
                    ELSE {JoinSpace(ps) \o <<"\n">>}

RssValues == {3, 6}

\* an smaps file: per mapping an Rss record and records of other fields
SmapsOf(rs) ==
    IF rs = <<>> THEN <<>>
    ELSE [i \in 1..(2 * Len(rs)) |->
            IF i % 2 = 1 THEN [label |-> "Rss:", value |-> rs[(i + 1) \div 2]]
            ELSE [label |-> "Pss:", value |-> rs[i \div 2]]]

SmapsFiles == { SmapsOf(rs) : rs \in SeqsUpTo(RssValues, MaxMappings) }

(***************************************************************************)
(* Printed lines.  text is what reaches standard output; the other fields  *)
(* are the values substituted into the f-string.                           *)
(***************************************************************************)
ReportText(prefix, bar, pct, used_str, tot_str) ==
    prefix \o bar \o <<"|", " ">> \o pct \o <<"%", "]", " ">>
           \o used_str \o <<"/">> \o tot_str

ReportLine(label, prefix, bar, pct, used, used_str, tot_str) ==
    [kind |-> "report", label |-> label, bar |-> bar, percent |-> pct,
     used |-> used, used_str |-> used_str, total_str |-> tot_str,
     text |-> ReportText(prefix, bar, pct, used_str, tot_str)]

MessageLine(text) ==
    [kind |-> "message", label |-> <<>>, bar |-> <<>>, percent |-> <<>>,
     used |-> 0, used_str |-> <<>>, total_str |-> <<>>, text |-> text]

\* the literal that opens the f-string of the system-wide line
MemoryPrefix == <<"M", "e", "m", "o", "r", "y", " ", " ", " ", " ", " ", " ", " ", " ", " ", "[">>

\* f"{label:<15} ["
LabelPrefix(label) == LJust(label, 15) \o <<" ", "[">>

\* f"{usage_percent*100:.0f}"
PercentStr(percent) == FormatFixed(percent.num * 100, percent.den, 0)

\* the message printed when no process is found, without the program name
NoProcessesMsg_short(program) == <<"N", "o", " ", "p", "r", "o", "c", "e", "s", "s", "e", "s", " ", "f", "o", "u", "n", "d">>

\* f"No processes found for {args.program}"
NoProcessesMsg(program) == <<"N", "o", " ", "p", "r", "o", "c", "e", "s", "s", "e", "s", " ", "f", "o", "u", "n", "d", " ", "f", "o", "r", " ">> \o program

\* used_mem = total_mem - avail_mem, with the operands exchanged
UsedMem_swapped(total, avail) == avail - total

\* used_mem = total_mem - avail_mem
UsedMem(total, avail) == total - avail

\* total_rss = sum(rss_totals), taking the last element only
TotalRss_last(totals) == totals[Len(totals)]

\* total_rss = sum(rss_totals)
TotalRss(totals) == SumSeq(totals)

\* if len(pids) > 1, with >= in place of >
NeedsAggregate_ge(ps) == Len(ps) >= 1

\* if len(pids) > 1
NeedsAggregate(ps) == Len(ps) > 1

(***************************************************************************)
(* __main__                                                                *)
(***************************************************************************)
GraphIdle ==
    /\ g_args = [percent |-> [num |-> 0, den |-> 1], length |-> 0]
    /\ g_ret = None
    /\ g_prev = None

HumanIdle ==
    /\ h_arg = <<>>
    /\ h_ret = None

MainInit ==
    /\ args \in ArgSets
    /\ meminfo \in MeminfoFiles
    /\ pc = "start"
    /\ total_mem = None
    /\ pids = <<>>
    /\ idx = 1
    /\ rss_totals = <<>>
    /\ total_str = <<>>
    /\ out = <<>>
    /\ exit_code = None
    /\ exc = ""

Init == MainInit /\ GraphIdle /\ HumanIdle

\* an uncaught exception ends the interpreter with a traceback and status 1
Raise(name) ==
    /\ pc' = "crashed"
    /\ exc' = name
    /\ exit_code' = Some(1)

\* system-wide branch, MemTotal present
SystemWideReport ==
    /\ pc = "start"
    /\ args.program = <<>>
    /\ ~IsNone(get_sys_mem(meminfo))
    /\ LET total == Val(get_sys_mem(meminfo))
           avail_mem == get_avail_mem(meminfo)
           used_mem == UsedMem(total, avail_mem)
           usage_percent == [num |-> used_mem, den |-> total]
           bar_graph == percent_to_graph(usage_percent, args.length)
           used_str == AmountStr(used_mem, args.human_readable)
           tot_str == AmountStr(total, args.human_readable)
       IN  /\ total_mem' = Some(total)
           /\ total_str' = tot_str
           /\ out' = Append(out, ReportLine(<<"M", "e", "m", "o", "r", "y">>, MemoryPrefix, bar_graph,
                                            PercentStr(usage_percent), used_mem,
                                            used_str, tot_str))
    /\ pc' = "done"
    /\ exit_code' = Some(0)
    /\ UNCHANGED <<args, meminfo, pids, idx, rss_totals, exc>>
    /\ UNCHANGED <<graphVars, humanVars>>

\* system-wide branch, MemTotal absent: total_mem is None and
\* `total_mem - avail_mem` raises TypeError
SystemWideTypeError ==
    /\ pc = "start"
    /\ args.program = <<>>
    /\ IsNone(get_sys_mem(meminfo))
    /\ total_mem' = None
    /\ Raise("TypeError")
    /\ UNCHANGED <<args, meminfo, pids, idx, rss_totals, total_str, out>>
    /\ UNCHANGED <<graphVars, humanVars>>

\* per-program branch up to the loop: total_mem, pids, the empty-list exit
PerProgramStart ==
    /\ pc = "start"
    /\ args.program # <<>>
    /\ total_mem' = get_sys_mem(meminfo)
    /\ \E running \in PidLists : \E stdout \in PidofOutputs(running) :
          pids' = pids_of_prog(stdout)
    /\ IF pids' = <<>>
       THEN /\ out' = Append(out, MessageLine(NoProcessesMsg(args.program)))
            /\ pc' = "exited"
            /\ exit_code' = Some(1)
       ELSE /\ out' = out
            /\ pc' = "loop"
            /\ exit_code' = exit_code
    /\ UNCHANGED <<args, meminfo, idx, rss_totals, total_str, exc>>
    /\ UNCHANGED <<graphVars, humanVars>>

\* loop body, /proc/<pid>/smaps cannot be opened: open() raises
LoopOpenFails ==
    /\ pc = "loop"
    /\ idx <= Len(pids)
    /\ \E e \in {"FileNotFoundError", "PermissionError"} : Raise(e)
    /\ UNCHANGED <<args, meminfo, total_mem, pids, idx, rss_totals, total_str, out>>
    /\ UNCHANGED <<graphVars, humanVars>>

\* loop body, smaps read but total_mem is None: `rss_mem / total_mem`
\* raises TypeError
LoopTypeError ==
    /\ pc = "loop"
    /\ idx <= Len(pids)
    /\ IsNone(total_mem)
    /\ Raise("TypeError")
    /\ UNCHANGED <<args, meminfo, total_mem, pids, idx, rss_totals, total_str, out>>
    /\ UNCHANGED <<graphVars, humanVars>>

\* loop body: one per-process line.  A process's resident size is at most
\* the machine's memory.
LoopReport ==
    /\ pc = "loop"
    /\ idx <= Len(pids)
    /\ ~IsNone(total_mem)
    /\ \E smaps \in SmapsFiles :
          LET pid == pids[idx]
              total == Val(total_mem)
              rss_mem == rss_mem_of_pid(smaps)
              usage_percent == [num |-> rss_mem, den |-> total]
              bar_graph == percent_to_graph(usage_percent, args.length)
              rss_str == AmountStr(rss_mem, args.human_readable)
              tot_str == AmountStr(total, args.human_readable)
          IN  /\ rss_mem <= total
              /\ total_str' = tot_str
              /\ out' = Append(out, ReportLine(pid, LabelPrefix(pid), bar_graph,
                                               PercentStr(usage_percent), rss_mem,
                                               rss_str, tot_str))
              /\ rss_totals' = Append(rss_totals, rss_mem)
    /\ idx' = idx + 1
    /\ UNCHANGED <<args, meminfo, pc, total_mem, pids, exit_code, exc>>
    /\ UNCHANGED <<graphVars, humanVars>>

\* after the loop: the aggregate line when more than one identifier
Finish ==
    /\ pc = "loop"
    /\ idx > Len(pids)
    /\ IF NeedsAggregate(pids)
       THEN LET total == Val(total_mem)
                total_rss == TotalRss(rss_totals)
                total_usage_percent == [num |-> total_rss, den |-> total]
                bar_graph == percent_to_graph(total_usage_percent, args.length)
                total_rss_str == AmountStr(total_rss, args.human_readable)
            IN  out' = Append(out, ReportLine(args.program, LabelPrefix(args.program),
                                              bar_graph, PercentStr(total_usage_percent),
                                              total_rss, total_rss_str, total_str))
       ELSE out' = out
    /\ pc' = "done"
    /\ exit_code' = Some(0)
    /\ UNCHANGED <<args, meminfo, total_mem, pids, idx, rss_totals, total_str, exc>>
    /\ UNCHANGED <<graphVars, humanVars>>

Next ==
    \/ SystemWideReport
    \/ SystemWideTypeError
    \/ PerProgramStart
    \/ LoopOpenFails
    \/ LoopTypeError
    \/ LoopReport
    \/ Finish

Spec == Init /\ [][Next]_vars

(***************************************************************************)
(* percent_to_graph on its own: calls with the same length and a fraction  *)
(* drawn anew for every call, the previous call kept for comparison.       *)
(***************************************************************************)
MainIdle ==
    /\ args = [program |-> <<>>, length |-> 0, human_readable |-> FALSE]
    /\ meminfo = <<>>
    /\ pc = "idle"
    /\ total_mem = None
    /\ pids = <<>>
    /\ idx = 1
    /\ rss_totals = <<>>
    /\ total_str = <<>>
    /\ out = <<>>
    /\ exit_code = None
    /\ exc = ""

Fractions == [num : (0 - MaxDen)..(2 * MaxDen), den : 1..MaxDen]

GraphInit ==
    /\ MainIdle
    /\ HumanIdle
    /\ g_args \in [percent : Fractions, length : 0..MaxLength]
    /\ g_ret = None
    /\ g_prev = None

GraphCall ==
    /\ g_ret = None
    /\ g_ret' = Some(percent_to_graph(g_args.percent, g_args.length))
    /\ UNCHANGED <<g_args, g_prev>>
    /\ UNCHANGED <<mainVars, humanVars>>

GraphAgain ==
    /\ g_ret # None
    /\ g_prev' = Some([percent |-> g_args.percent, ret |-> Val(g_ret)])
    /\ \E p \in Fractions : g_args' = [g_args EXCEPT !.percent = p]
    /\ g_ret' = None
    /\ UNCHANGED <<mainVars, humanVars>>

GraphNext == GraphCall \/ GraphAgain

SpecGraph == GraphInit /\ [][GraphNext]_vars

(***************************************************************************)
(* bytes_to_human_r on its own.                                            *)
(***************************************************************************)
LimbDigits == {0, 1, 1023}

HumanArgs == { l \in SeqsUpTo(LimbDigits, MaxLimbs) : l = <<>> \/ l[Len(l)] # 0 }

HumanInit ==
    /\ MainIdle
    /\ GraphIdle
    /\ h_arg \in HumanArgs
    /\ h_ret = None

HumanCall ==
    /\ h_ret = None
    /\ h_ret' = Some(bytes_to_human_r([neg |-> FALSE, limbs |-> h_arg]))
    /\ UNCHANGED h_arg
    /\ UNCHANGED <<mainVars, graphVars>>

HumanNext == HumanCall

SpecHuman == HumanInit /\ [][HumanNext]_vars

(***************************************************************************)
(* Properties.                                                             *)
(***************************************************************************)
CountChar(s, c) == Cardinality({ i \in 1..Len(s) : s[i] = c })

StartsWith(s, prefix) ==
    Len(s) >= Len(prefix) /\ SubSeq(s, 1, Len(prefix)) = prefix

\* a run of '#' followed by a run of ' '
IsBar(s) ==
    \E k \in 0..Len(s) : \A i \in 1..Len(s) : s[i] = (IF i <= k THEN "#" ELSE " ")

HasField(label) == \E i \in 1..Len(meminfo) : meminfo[i].label = label

FieldValue(label) ==
    meminfo[CHOOSE i \in 1..Len(meminfo) : meminfo[i].label = label].value

ReportLines == { i \in 1..Len(out) : out[i].kind = "report" }

PerProgram == args.program # <<>>

\* C1: when the resolver returns no identifier, the run prints exactly the
\* line "No processes found for <name>", prints no report line, and ends
\* with exit status 1.
C1_NoProcesses ==
    /\ (PerProgram /\ pc # "start" /\ pids = <<>>) =>
          /\ pc = "exited"
          /\ exit_code = Some(1)
          /\ Len(out) = 1
          /\ ReportLines = {}
          /\ out[1].text = <<"N", "o", " ", "p", "r", "o", "c", "e", "s", "s", "e", "s", " ", "f", "o", "u", "n", "d", " ", "f", "o", "r", " ">> \o args.program
    /\ pc = "exited" => (PerProgram /\ pids = <<>>)

C1_Witness ==
    /\ pc = "exited"
    /\ args.program = <<"s", "h">>
    /\ Len(out) = 1

\* C2: a per-program run over N >= 1 identifiers prints one line per
\* identifier, in the resolver's order and labelled with the identifier,
\* and then one aggregate line labelled with the program name exactly when
\* N > 1; the aggregate line is the last one.
C2_LinesPerPid ==
    LET N == Len(pids)
        IsLineOf(i, label) ==
            /\ out[i].kind = "report"
            /\ out[i].label = label
            /\ StartsWith(out[i].text, LJust(label, 15))
    IN  /\ pc = "loop" =>
              /\ N >= 1
              /\ Len(out) = idx - 1
              /\ \A i \in 1..Len(out) : IsLineOf(i, pids[i])
        /\ (pc = "done" /\ PerProgram) =>
              /\ N >= 1
              /\ Len(out) = (IF N > 1 THEN N + 1 ELSE N)
              /\ \A i \in 1..N : IsLineOf(i, pids[i])
              /\ N > 1 => IsLineOf(N + 1, args.program)

C2_Witness ==
    /\ pc = "done"
    /\ PerProgram
    /\ Len(pids) = 2
    /\ Len(out) = 3
    /\ out[1].label = pids[1]
    /\ out[3].label = args.program

\* C3: with N > 1 identifiers, the aggregate line's used amount is the sum
\* of the amounts of the N per-process lines, and its bar and percentage
\* are those of that sum over the system total that every per-process line
\* shows.
C3_AggregateIsSum ==
    (pc = "done" /\ PerProgram /\ Len(pids) > 1) =>
        LET N == Len(pids)
            agg == out[N + 1]
            sum == SumSeq([i \in 1..N |-> out[i].used])
            T == FieldValue("MemTotal:")
        IN  /\ agg.used = sum
            /\ agg.used_str = AmountStr(sum, args.human_readable)
            /\ CountChar(agg.bar, "#") = RoundHalfEven(sum * args.length, T)
            /\ agg.percent = IntToStr(RoundHalfEven(sum * 100, T))
            /\ \A i \in 1..N :
                  /\ out[i].total_str = agg.total_str
                  /\ CountChar(out[i].bar, "#")
                        = RoundHalfEven(out[i].used * args.length, T)
            /\ ~args.human_readable => agg.total_str = IntToStr(T)

C3_Witness ==
    /\ pc = "done"
    /\ PerProgram
    /\ Len(pids) = 2
    /\ out[1].used = 3
    /\ out[2].used = 6
    /\ out[3].used = 9
    /\ FieldValue("MemTotal:") = 8
    /\ args.length = 4
    /\ CountChar(out[3].bar, "#") = 4

\* C4: a system-wide run with MemTotal = T > 0 and MemAvailable = A prints
\* exactly one line, labelled "Memory", with used amount T - A, total T and
\* round((T - A) * length / T) fill characters; T = 16000000, A = 4000000,
\* length 20 gives 15 fill characters and 75%.
C4_SystemWide ==
    (~PerProgram /\ pc \notin {"start", "idle"}
        /\ HasField("MemTotal:") /\ HasField("MemAvailable:")) =>
        LET T == FieldValue("MemTotal:")
            A == FieldValue("MemAvailable:")
        IN  /\ pc = "done"
            /\ exit_code = Some(0)
            /\ Len(out) = 1
            /\ out[1].kind = "report"
            /\ out[1].label = <<"M", "e", "m", "o", "r", "y">>
            /\ StartsWith(out[1].text, <<"M", "e", "m", "o", "r", "y">> \o <<" ">>)
            /\ out[1].used = T - A
            /\ CountChar(out[1].bar, "#") = RoundHalfEven((T - A) * args.length, T)
            /\ Len(out[1].bar) = args.length
            /\ ~args.human_readable =>
                  /\ out[1].used_str = IntToStr(T - A)
                  /\ out[1].total_str = IntToStr(T)
            /\ (T = 16000000 /\ A = 4000000) =>
                  /\ out[1].percent = <<"7", "5">>
                  /\ args.length = 20 => CountChar(out[1].bar, "#") = 15
                  /\ args.human_readable => out[1].total_str = <<"1", "5", ".", "2", "6", " ", "G", "i", "B">>

C4_Witness ==
    /\ pc = "done"
    /\ ~PerProgram
    /\ HasField("MemAvailable:")
    /\ FieldValue("MemTotal:") = 16000000
    /\ args.length = 20
    /\ ~args.human_readable
    /\ CountChar(out[1].bar, "#") = 15
    /\ out[1].used_str = <<"1", "2", "0", "0", "0", "0", "0", "0">>

\* C5: every report line has the label padded to 15 characters, then one
\* space, then '[': the bar opens at the same column on every line.
C5_SameLayout ==
    \A i \in ReportLines :
        StartsWith(out[i].text, LJust(out[i].label, 15) \o <<" ", "[">>)

\* C6: for a fraction in [0, 1] and a length >= 0, percent_to_graph returns
\* exactly `length` characters, a run of '#' followed by a run of ' '; the
\* number of '#' does not decrease when the fraction grows, is 0 for the
\* fraction 0 and `length` for the fraction 1.
InUnit(p) == 0 <= p.num /\ p.num <= p.den

C6_BarShape ==
    (g_ret # None /\ InUnit(g_args.percent)) =>
        LET p == g_args.percent
            bar == Val(g_ret)
        IN  /\ Len(bar) = g_args.length
            /\ IsBar(bar)
            /\ p.num = 0 => CountChar(bar, "#") = 0
            /\ p.num = p.den => CountChar(bar, "#") = g_args.length
            /\ (g_prev # None /\ InUnit(Val(g_prev).percent)
                  /\ Val(g_prev).percent.num * p.den <= p.num * Val(g_prev).percent.den)
                  => CountChar(Val(g_prev).ret, "#") <= CountChar(bar, "#")

C6_Witness ==
    /\ g_ret # None
    /\ g_prev # None
    /\ InUnit(g_args.percent)
    /\ InUnit(Val(g_prev).percent)
    /\ Val(g_prev).percent.num * g_args.percent.den
          < g_args.percent.num * Val(g_prev).percent.den
    /\ 0 < CountChar(Val(g_prev).ret, "#")
    /\ CountChar(Val(g_prev).ret, "#") < CountChar(Val(g_ret), "#")
    /\ CountChar(Val(g_ret), "#") < g_args.length

\* C7: for a fraction below 0 or above 1 the fill count is clamped to
\* [0, length]: the bar returned by percent_to_graph has exactly `length`
\* characters and at most `length` fill characters, whatever the fraction.
C7_Clamped ==
    g_ret # None =>
        /\ Len(Val(g_ret)) = g_args.length
        /\ CountChar(Val(g_ret), "#") <= g_args.length

\* C8: when the memory source of one resolved identifier cannot be opened,
\* the report lines of all the other resolved identifiers are still
\* printed by the end of the run.
C8_OthersReported ==
    (pc = "crashed" /\ PerProgram /\ ~IsNone(total_mem)
        /\ exc \in {"FileNotFoundError", "PermissionError"}) =>
        \A j \in 1..Len(pids) :
            j # idx => \E i \in ReportLines : out[i].label = pids[j]

\* C9: with no MemTotal record in meminfo, get_sys_mem fails and the
\* failure propagates: the run ends by that failure, it never goes on with
\* an empty or defaulted total.
C9_TotalNotFoundRaises ==
    (pc \notin {"start", "idle"} /\ ~HasField("MemTotal:")) =>
        /\ pc = "crashed"
        /\ exc \notin {"", "TypeError"}

\* C10: bytes_to_human_r picks the suffix of index k, the number of
\* divisions by 1024 that keep to `value >= 1024 and k < 4`; the scaled
\* value amount / 1024^k is below 1024 for every suffix but PiB; 0 gives
\* KiB and 1048576 gives 1 GiB.
C10_SuffixChoice ==
    h_ret # None =>
        LET r == Val(h_ret)
            n == Len(h_arg)
            k == IF n <= 1 THEN 0 ELSE IF n - 1 > 4 THEN 4 ELSE n - 1
        IN  /\ r.suf_count = k
            /\ r.suffix = suffixes[k + 1]
            /\ r.result = [neg |-> FALSE, limbs |-> h_arg, shift |-> k]
            /\ r.suffix # <<"P", "i", "B">> => n <= k + 1
            /\ h_arg = <<>> => HumanStr(r) = <<"0", ".", "0", "0", " ", "K", "i", "B">>
            /\ h_arg = <<0, 0, 1>> => HumanStr(r) = <<"1", ".", "0", "0", " ", "G", "i", "B">>

C10_Witness ==
    /\ h_ret # None
    /\ Val(h_ret).suffix = <<"P", "i", "B">>
    /\ Len(h_arg) = 6
    /\ h_arg[6] = 1023

====
